---- MODULE Spec2Model ----
(***************************************************************************)
(* kubectl-pocket: the "test <backend>" command in its two modes.          *)
(*                                                                         *)
(*   test mode   create pod -> WaitForPodCompletion -> GetPodLogs ->       *)
(*               verdict -> deferred cleanup (DeletePod)                   *)
(*   shell mode  create pod -> WaitForPodRunning -> MakeRaw -> Exec ->     *)
(*               deferred terminal restore -> deferred cleanup             *)
(*                                                                         *)
(* One invocation is modelled together with its environment: the control   *)
(* plane (pod object, its phase, API failures), the clock, and the signals *)
(* an operator may send to the process.  Time is counted in seconds, the   *)
(* poll interval of the waits.  An error value is the chain of messages    *)
(* that fmt.Errorf("...: %w") builds; the nil error is the empty chain.    *)
(***************************************************************************)
EXTENDS Integers, Sequences, FiniteSets, TLC

\* ---------------------------------------------------------------- bounds
MaxTimeout == 2     \* largest value of the --timeout flag that is explored
MaxSignals == 2     \* signals delivered to one invocation
MaxElapsed == 122   \* seconds a single wait is followed for

\* ------------------------------------------------------- program constants
PollInterval == 1       \* time.Second in both waits
ExtraSeconds == 30      \* timeout+30*time.Second, the test-mode deadline
CleanupTimeout == 10    \* 10*time.Second of the cleanup context
RunningTimeout == 120   \* 2*time.Minute of the shell-mode wait

Backends == {"redis", "mongo", "postgres"}
Phases == {"Pending", "Running", "Succeeded", "Failed", "Unknown"}
NoPhase == "none"

Nil == <<>>
DeadlineExceeded == <<"context deadline exceeded">>
Canceled == <<"context canceled">>
NotFound == <<"pods not found">>
ApiError == <<"api error">>

Min(a, b) == IF a <= b THEN a ELSE b
Range(s) == {s[i] : i \in 1..Len(s)}

\* ------------------------------------------------------------ log text
\* Log text is a sequence of characters; "s" is a blank, "n" a newline.
PONG == <<"P", "O", "N", "G">>
WhiteSpace == {"s", "n"}

\* Output of a client that printed an error and no acknowledgement.
ErrorBanner == <<"E", "R", "R">>

LogTexts ==
  { <<>>,
    PONG,
    <<"s", "P", "O", "N", "G", "n">>,
    ErrorBanner,
    <<"P", "O", "N">> }

RECURSIVE TrimLeft(_)
TrimLeft(s) ==
  IF s # <<>> /\ Head(s) \in WhiteSpace THEN TrimLeft(Tail(s)) ELSE s

RECURSIVE TrimRight(_)
TrimRight(s) ==
  IF s # <<>> /\ s[Len(s)] \in WhiteSpace
    THEN TrimRight(SubSeq(s, 1, Len(s) - 1))
    ELSE s

TrimSpace(s) == TrimRight(TrimLeft(s))

Contains(s, sub) ==
  \E i \in 1..(Len(s) - Len(sub) + 1) : SubSeq(s, i, i + Len(sub) - 1) = sub

\* ------------------------------------------------------------- contexts
\* A context is the time left until its deadline and its cancelled flag;
\* a context without deadline has Unlimited time left.
Unlimited == 0 - 1
CtxDone(c) == c.cancelled \/ c.left = 0
CtxErr(c) ==
  IF c.cancelled THEN Canceled
  ELSE IF c.left = 0 THEN DeadlineExceeded
  ELSE Nil
\* Variant: the time left on a context never runs down.
Elapse_Frozen(left) == left

\* One second passes on a context's time left.
Elapse(left) == IF left > 0 THEN left - 1 ELSE left

VARIABLES
  backend,      \* which subcommand runs
  shell,        \* the --shell flag
  timeout,      \* the --timeout flag, seconds
  pc,           \* position of the foreground control flow
  sigNotify,    \* signal.Notify has been called (shell mode)
  signals,      \* signals delivered so far
  sigAfterCreate, \* a signal arrived after CreatePod had succeeded
  ctx,          \* the operation context
  pod,          \* control plane: "absent", or the phase of the pod
  createOK,     \* CreatePod returned a nil error
  defers,       \* deferred calls, last registered last
  poll,         \* the running wait, and what is known of the finished one
  resultPod,    \* WaitForPodCompletion's resultPod (its phase, or none)
  logs,         \* text returned by GetPodLogs
  termRaw,      \* the local terminal is in raw mode
  session,      \* exec session: "none", "open", "closed"
  bodyErr,      \* error value of the return statement that ended the body
  result,       \* the command's error result
  exitStatus,   \* process exit status, -1 while running
  del,          \* the cleanup's DeletePod call
  cleanupOut,   \* lines printed by the cleanup
  logCall,      \* the GetPodLogs call of the probe and its error
  pf,           \* the port-forward command (see the second part)
  created,      \* control plane: the pod object it accepted from CreatePod
  parse,        \* a call of parseRedisConnection (see the third part)
  duo           \* two invocations with one pod name (see the fourth part)

vars == << backend, shell, timeout, pc, sigNotify, signals, sigAfterCreate,
           ctx, pod, createOK, defers, poll, resultPod, logs, termRaw,
           session, bodyErr, result, exitStatus, del, cleanupOut, logCall,
           pf, created, parse, duo >>

\* left, timer, elapsed, reads and sleeps are the wait's own state and are
\* cleared when it returns; the other fields record how it went.
\* No second invocation is looked at.
NoDuo == [pc |-> "idle"]

\* parseRedisConnection is not called.
NoParse == [pc |-> "idle"]

\* No pod object.
NoObject == [name |-> <<>>, labels |-> {}, tty |-> FALSE, stdin |-> FALSE]

\* The pf command is not run.
NoPortForward == [pc |-> "idle"]

NoPoll ==
  [ active |-> FALSE, ended |-> FALSE, left |-> 0, timer |-> 0,
    elapsed |-> 0, reads |-> 0, sleeps |-> 0,
    firstMatched |-> FALSE, atFirstCheck |-> FALSE, readFailed |-> FALSE,
    matched |-> FALSE, overran |-> FALSE, last |-> NoPhase, err |-> Nil ]

NoDelete ==
  [ calls |-> 0, sent |-> 0, ctxDoneAtCall |-> FALSE, opDoneAtCall |-> FALSE,
    ctx |-> [left |-> 0, cancelled |-> FALSE], podWasThere |-> FALSE,
    returned |-> FALSE, answer |-> "none", absent |-> FALSE, err |-> Nil ]

Init ==
  /\ backend \in Backends
  /\ shell \in BOOLEAN
  /\ timeout \in 0..MaxTimeout
  /\ pc = "start"
  /\ sigNotify = FALSE
  /\ signals = 0
  /\ sigAfterCreate = FALSE
  /\ ctx = [left |-> Unlimited, cancelled |-> FALSE]
  /\ pod = "absent"
  /\ createOK = FALSE
  /\ defers = <<>>
  /\ poll = NoPoll
  /\ resultPod = NoPhase
  /\ logs = <<>>
  /\ termRaw = FALSE
  /\ session = "none"
  /\ bodyErr = Nil
  /\ result = Nil
  /\ exitStatus = -1
  /\ del = NoDelete
  /\ cleanupOut = <<>>
  /\ logCall = [called |-> FALSE, err |-> Nil]
  /\ created = NoObject
  /\ parse = NoParse
  /\ duo = NoDuo
  /\ pf = NoPortForward


\* ------------------------------------------------- code, as operators

\* main: os.Exit(1) when Execute returned an error.
ExitStatus(err) == IF err = Nil THEN 0 ELSE 1

\* Variant: the cleanup is not deferred.
DeferCleanup_Missing(stack) == stack

\* The defer that follows a successful CreatePod.
DeferCleanup(stack) == Append(stack, "cleanup")

\* Variant: the cleanup reuses the operation context.
CleanupContext_Reused(opctx) == opctx

\* context.WithTimeout(context.Background(), 10*time.Second) of the cleanup:
\* derived from Background, not from the operation context opctx.
CleanupContext(opctx) == [left |-> CleanupTimeout, cancelled |-> FALSE]

\* Variant: a failed delete becomes the result of the command.
ReturnAfterCleanup_Escalated(ret, delErr) ==
  IF delErr # Nil THEN <<"cleanup failed">> \o delErr ELSE ret

\* "_ = client.DeletePod(...)": the function result is left as it was.
ReturnAfterCleanup(ret, delErr) == ret

\* Variant: a failed delete is printed as a warning.
CleanupReport_Warned(delErr) ==
  IF delErr # Nil THEN <<"Warning: failed to delete pod">> ELSE <<>>

\* What the cleanup prints once DeletePod has returned delErr: nothing.
CleanupReport(delErr) == <<>>

\* Variant: DeletePod swallows the not-found answer.
DeletePodResult_Swallowed(podState, outcome) ==
  IF outcome = "apierr" THEN ApiError ELSE Nil

\* Client.DeletePod: the control plane's answer is returned unchanged.
\* outcome is what the control plane did with the request.
DeletePodResult(podState, outcome) ==
  IF outcome = "apierr" THEN ApiError
  ELSE IF podState = "absent" THEN NotFound
  ELSE Nil

\* Pods(ns).Get: the answer of one status read.
GetPodResult(podState, outcome) ==
  IF outcome = "apierr" THEN ApiError
  ELSE IF podState = "absent" THEN NotFound
  ELSE Nil

\* Variant: WaitForPodRunning also takes a finished pod as started.
isRunning_OrTerminal(phase) == phase \in {"Running", "Succeeded", "Failed"}

\* The predicate of WaitForPodRunning.
isRunning(phase) == phase = "Running"

\* Variant: WaitForPodCompletion takes any phase as final.
isTerminal_Any(phase) == TRUE

\* The predicate of WaitForPodCompletion.
isTerminal(phase) == phase \in {"Succeeded", "Failed"}

\* Variant: the condition functions report a failed read as "not yet".
ConditionResult_Retried(running, readErr, phase) ==
  IF readErr # Nil THEN [done |-> FALSE, err |-> Nil]
  ELSE IF running THEN [done |-> phase = "Running", err |-> Nil]
  ELSE [done |-> phase \in {"Succeeded", "Failed"}, err |-> Nil]

\* The condition functions handed to PollUntilContextTimeout.
\* running: WaitForPodRunning, otherwise WaitForPodCompletion.
ConditionResult(running, readErr, phase) ==
  IF readErr # Nil THEN [done |-> FALSE, err |-> readErr]
  ELSE IF running THEN [done |-> isRunning(phase), err |-> Nil]
  ELSE [done |-> isTerminal(phase), err |-> Nil]

\* Variant: the poll loop sleeps before its first check.
Immediate_Off == FALSE

\* The "immediate" argument of PollUntilContextTimeout.
Immediate == TRUE

\* Variant: the wait has no deadline of its own.
PollDeadline_ParentOnly(limit, parentLeft) == parentLeft

\* Time left on the context PollUntilContextTimeout derives from its parent.
PollDeadline(limit, parentLeft) ==
  IF parentLeft = Unlimited THEN limit ELSE Min(limit, parentLeft)

\* Timeout argument of the wait: the flag in test mode, 2 minutes in shell.
WaitLimit(isShell, flag) == IF isShell THEN RunningTimeout ELSE flag

\* Variant: the last observed phase is appended to the error.
WaitErrorWrap_WithPhase(isShell, err, lastPhase) ==
  (IF isShell THEN <<"pod failed to start">> \o err
   ELSE <<"timeout waiting for test">> \o err) \o <<lastPhase>>

\* The error the command returns when its wait failed.
WaitErrorWrap(isShell, err, lastPhase) ==
  IF isShell THEN <<"pod failed to start">> \o err
  ELSE <<"timeout waiting for test">> \o err

\* Variant: every backend's probe looks for the marker.
ChecksMarker_All(b) == TRUE

\* The probes that look into the log text: runRedisTest has the
\* strings.Contains test, runMongoTest and runPostgresTest have none.
ChecksMarker(b) == b = "redis"

\* Variant: the phase alone decides for every backend.
ProbeSucceeded_PhaseOnly(b, phase, text) == phase = "Succeeded"

\* Verdict of a probe over the terminal phase and the log text.
ProbeSucceeded(b, phase, text) ==
  IF ChecksMarker(b)
    THEN phase = "Succeeded" /\ Contains(TrimSpace(text), PONG)
    ELSE phase = "Succeeded"

\* Variant: a failed log retrieval does not fail a probe whose pod succeeded.
ProbeResult_LogErrorIgnored(b, phase, err, text) ==
  IF err # Nil /\ phase # "Succeeded" THEN <<"failed to get logs">> \o err
  ELSE IF phase = "Succeeded" THEN Nil
  ELSE <<"connection test failed">>

\* What the probe returns once GetPodLogs has returned (text, err).
ProbeResult(b, phase, err, text) ==
  IF err # Nil THEN <<"failed to get logs">> \o err
  ELSE IF ProbeSucceeded(b, phase, text) THEN Nil
  ELSE <<"connection test failed">>

\* Variant: the error of CreatePod is not looked at.
CreateFailed_Ignored(err) == FALSE

\* "if err != nil" after client.CreatePod.
CreateFailed(err) == err # Nil

\* Variant: the error of WaitForPodRunning is not looked at.
WaitFailed_Ignored(err) == FALSE

\* "if err != nil" after the wait.
WaitFailed(err) == err # Nil

\* Variant: the terminal restore is not deferred.
DeferRestore_Missing(stack) == stack

\* defer restoreTerminal(oldState) / defer term.Restore(fd, oldState)
DeferRestore(stack) == Append(stack, "restore")

\* podName and the PodConfig of a flow: the name is derived from the backend
\* and the second of the start, TTY and Stdin are set by the shell flows.
PodConfig(b, isShell) ==
  [ Name |-> <<"pocket", b, "now">>, TTY |-> isShell, Stdin |-> isShell ]

\* Variant: the pod object carries no labels.
PodObject_Unlabelled(config) ==
  [ name |-> config.Name, labels |-> {},
    tty |-> config.TTY, stdin |-> config.Stdin ]

\* The pod object that CreatePod builds from a PodConfig and submits.
PodObject(config) ==
  [ name |-> config.Name,
    labels |-> { <<"app.kubernetes.io/managed-by", "kubectl-pocket">>,
                 <<"kubectl-pocket/temporary", "true">> },
    tty |-> config.TTY, stdin |-> config.Stdin ]

PollCtx == [left |-> poll.left, cancelled |-> ctx.cancelled]

Alive == pc \notin {"done", "killed"}

\* ------------------------------------------------------ the foreground

\* A return statement of the command body: the deferred calls run next.
Return(err) ==
  /\ bodyErr' = err
  /\ result' = err
  /\ pc' = "defers"

\* runRedisTest / runMongoTest / runPostgresTest up to CreatePod, and the
\* head of run*Shell: client, contexts, signal handler.
Start ==
  /\ pc = "start"
  /\ \E clientOK \in BOOLEAN :
       IF ~clientOK
         THEN /\ Return(<<"failed to create k8s client">>)
              /\ UNCHANGED <<ctx, defers, sigNotify>>
         ELSE /\ pc' = "create"
              /\ defers' = <<"cancel">>
              /\ sigNotify' = shell
              /\ ctx' = [ left |-> IF shell THEN Unlimited
                                   ELSE timeout + ExtraSeconds,
                          cancelled |-> FALSE ]
              /\ UNCHANGED <<bodyErr, result>>
  /\ UNCHANGED << backend, shell, timeout, signals, sigAfterCreate, pod,
                  createOK, poll, resultPod, logs, termRaw, session,
                  exitStatus, del, cleanupOut >>
  /\ UNCHANGED <<logCall, pf, created, parse, duo>>

\* State of PollUntilContextTimeout at the moment it is called.
NewPoll ==
  [ NoPoll EXCEPT !.active = TRUE,
                  !.left = PollDeadline(WaitLimit(shell, timeout), ctx.left),
                  !.timer = PollInterval ]

\* client.CreatePod is called: the request leaves on a live context and the
\* control plane accepts or rejects the pod.
CreatePod ==
  /\ pc = "create"
  /\ IF CtxDone(ctx)
       THEN /\ createOK' = FALSE
            /\ Return(<<"failed to create pod">> \o CtxErr(ctx))
            /\ UNCHANGED <<pod, created>>
       ELSE \E outcome \in {"ok", "rejected"} :
              /\ pc' = "create_wait"
              /\ IF outcome = "ok"
                   THEN /\ pod' = "Pending"
                        /\ created' = PodObject(PodConfig(backend, shell))
                   ELSE UNCHANGED <<pod, created>>
              /\ UNCHANGED <<createOK, bodyErr, result>>
  /\ UNCHANGED << backend, shell, timeout, sigNotify, signals,
                  sigAfterCreate, ctx, defers, poll, resultPod, logs,
                  termRaw, session, exitStatus, del, cleanupOut >>
  /\ UNCHANGED <<logCall, pf, parse, duo>>

\* client.CreatePod returns, then the defer of the cleanup and the call of
\* the wait.  It returns the control plane's answer, or the context's
\* error when the context ended while the request was under way (either,
\* when both are there).
CreateReturn ==
  /\ pc = "create_wait"
  /\ \E answered \in BOOLEAN :
       LET answer == IF created = NoObject THEN <<"rejected">> ELSE Nil
           err == IF CtxDone(ctx) /\ ~answered THEN CtxErr(ctx) ELSE answer
       IN /\ createOK' = (err = Nil)
          /\ IF CreateFailed(err)
               THEN /\ Return(<<"failed to create pod">> \o err)
                    /\ UNCHANGED <<defers, poll>>
               ELSE /\ defers' = DeferCleanup(defers)
                    /\ poll' = NewPoll
                    /\ pc' = IF Immediate THEN "wait_check" ELSE "wait_sleep"
                    /\ UNCHANGED <<bodyErr, result>>
  /\ UNCHANGED << backend, shell, timeout, sigNotify, signals,
                  sigAfterCreate, ctx, pod, resultPod, logs, termRaw,
                  session, exitStatus, del, cleanupOut >>
  /\ UNCHANGED <<logCall, pf, created, parse, duo>>

\* The create request gets no answer until the operation deadline has
\* passed.
CreateHang ==
  /\ pc = "create_wait"
  /\ ~CtxDone(ctx) /\ ctx.left > 0
  /\ ctx' = [ctx EXCEPT !.left = 0]
  /\ UNCHANGED << backend, shell, timeout, pc, sigNotify, signals,
                  sigAfterCreate, pod, createOK, defers, poll, resultPod,
                  logs, termRaw, session, bodyErr, result, exitStatus, del,
                  cleanupOut >>
  /\ UNCHANGED <<logCall, pf, created, parse, duo>>

\* The wait returns err to the command, which returns or goes on.
EndWait(p, err) ==
  /\ poll' = [ NoPoll EXCEPT
                 !.ended = TRUE,
                 !.err = err,
                 !.firstMatched = p.firstMatched,
                 !.atFirstCheck = (p.reads = 1 /\ p.sleeps = 0),
                 !.readFailed = p.readFailed,
                 !.matched = p.matched,
                 !.overran =
                   (p.elapsed > WaitLimit(shell, timeout) + PollInterval),
                 !.last = p.last ]
  /\ IF WaitFailed(err)
       THEN Return(WaitErrorWrap(shell, err, p.last))
       ELSE /\ pc' = IF shell THEN "makeraw" ELSE "logs"
            /\ UNCHANGED <<bodyErr, result>>

\* One run of the condition function: a status read and the predicate.
WaitCheck ==
  /\ pc = "wait_check"
  /\ \E outcome \in {"ok", "apierr"} :
       LET readErr == IF CtxDone(PollCtx) THEN CtxErr(PollCtx)
                      ELSE GetPodResult(pod, outcome)
           cond == ConditionResult(shell, readErr, pod)
           p == [poll EXCEPT
                   !.reads = @ + 1,
                   !.readFailed = (readErr # Nil),
                   !.last = IF readErr = Nil THEN pod ELSE @,
                   !.matched = cond.done,
                   !.firstMatched = (poll.reads = 0 /\ cond.done)]
       IN /\ resultPod' = IF ~shell /\ readErr = Nil THEN pod ELSE resultPod
          /\ IF cond.err # Nil \/ cond.done
               THEN EndWait(p, cond.err)
               ELSE /\ poll' = p
                    /\ pc' = "wait_sleep"
                    /\ UNCHANGED <<bodyErr, result>>
  /\ UNCHANGED << backend, shell, timeout, sigNotify, signals,
                  sigAfterCreate, ctx, pod, createOK, defers, logs, termRaw,
                  session, exitStatus, del, cleanupOut >>
  /\ UNCHANGED <<logCall, pf, created, parse, duo>>

\* The select of the poll loop wakes up: context done, or timer fired.
WaitWake ==
  /\ pc = "wait_sleep"
  /\ CtxDone(PollCtx) \/ poll.timer = 0
  /\ LET p == [poll EXCEPT !.sleeps = @ + 1] IN
       IF CtxDone(PollCtx)
         THEN EndWait(p, CtxErr(PollCtx))
         ELSE /\ poll' = [p EXCEPT !.timer = PollInterval]
              /\ pc' = "wait_check"
              /\ UNCHANGED <<bodyErr, result>>
  /\ UNCHANGED << backend, shell, timeout, sigNotify, signals,
                  sigAfterCreate, ctx, pod, createOK, defers, resultPod,
                  logs, termRaw, session, exitStatus, del, cleanupOut >>
  /\ UNCHANGED <<logCall, pf, created, parse, duo>>

\* client.GetPodLogs and the verdict of the probe.
GetPodLogs ==
  /\ pc = "logs"
  /\ \E outcome \in {"ok", "apierr"}, text \in LogTexts :
       LET err == IF CtxDone(ctx) THEN CtxErr(ctx)
                  ELSE GetPodResult(pod, outcome)
       IN /\ logCall' = [called |-> TRUE, err |-> err]
          /\ logs' = IF err # Nil THEN logs
                     ELSE IF backend = "redis" THEN TrimSpace(text)
                     ELSE text
          /\ Return(ProbeResult(backend, resultPod, err, text))
  /\ UNCHANGED << backend, shell, timeout, sigNotify, signals,
                  sigAfterCreate, ctx, pod, createOK, defers, poll,
                  resultPod, termRaw, session, exitStatus, del, cleanupOut >>
  /\ UNCHANGED <<pf, created, parse, duo>>

\* term.MakeRaw and the defer of the restore.
MakeRaw ==
  /\ pc = "makeraw"
  /\ \E ok \in BOOLEAN :
       IF ok
         THEN /\ termRaw' = TRUE
              /\ defers' = DeferRestore(defers)
              /\ pc' = "exec"
              /\ UNCHANGED <<bodyErr, result>>
         ELSE /\ Return(<<"failed to set raw terminal">>)
              /\ UNCHANGED <<termRaw, defers>>
  /\ UNCHANGED << backend, shell, timeout, sigNotify, signals,
                  sigAfterCreate, ctx, pod, createOK, poll, resultPod, logs,
                  session, exitStatus, del, cleanupOut >>
  /\ UNCHANGED <<logCall, pf, created, parse, duo>>

\* Client.Exec up to the opened stream.
ExecStart ==
  /\ pc = "exec"
  /\ \E executorOK \in BOOLEAN :
       IF ~executorOK
         THEN /\ Return(<<"failed to create executor">>)
              /\ UNCHANGED session
       ELSE IF CtxDone(ctx)
         THEN /\ Return(CtxErr(ctx))
              /\ UNCHANGED session
       ELSE IF pod # "Running"
         THEN /\ Return(<<"exec refused">>)
              /\ UNCHANGED session
       ELSE /\ session' = "open"
            /\ pc' = "exec_stream"
            /\ UNCHANGED <<bodyErr, result>>
  /\ UNCHANGED << backend, shell, timeout, sigNotify, signals,
                  sigAfterCreate, ctx, pod, createOK, defers, poll,
                  resultPod, logs, termRaw, exitStatus, del, cleanupOut >>
  /\ UNCHANGED <<logCall, pf, created, parse, duo>>

\* StreamWithContext returns: remote exit, connection error, cancellation.
ExecEnd ==
  /\ pc = "exec_stream"
  /\ \E how \in {"exit", "exit_error", "conn_error", "cancelled"} :
       /\ how = "cancelled" => ctx.cancelled
       /\ Return(CASE how = "exit" -> Nil
                   [] how = "exit_error" -> <<"command terminated">>
                   [] how = "conn_error" -> <<"connection error">>
                   [] how = "cancelled" -> Canceled)
  /\ session' = "closed"
  /\ UNCHANGED << backend, shell, timeout, sigNotify, signals,
                  sigAfterCreate, ctx, pod, createOK, defers, poll,
                  resultPod, logs, termRaw, exitStatus, del, cleanupOut >>
  /\ UNCHANGED <<logCall, pf, created, parse, duo>>

\* ------------------------------------------------------ deferred calls

\* Variant: deferred calls run in the order of their registration.
NextDeferred_Fifo(stack) == 1

\* Deferred calls run last-in first-out: the index of the next one.
NextDeferred(stack) == Len(stack)

Top == defers[NextDeferred(defers)]
Pop == LET k == NextDeferred(defers)
       IN [i \in 1..(Len(defers) - 1) |->
             IF i < k THEN defers[i] ELSE defers[i + 1]]

\* defer restoreTerminal(oldState) / defer term.Restore(...)
DeferredRestore ==
  /\ pc = "defers" /\ defers # <<>> /\ Top = "restore"
  /\ termRaw' = FALSE
  /\ defers' = Pop
  /\ UNCHANGED << backend, shell, timeout, pc, sigNotify, signals,
                  sigAfterCreate, ctx, pod, createOK, poll, resultPod, logs,
                  session, bodyErr, result, exitStatus, del, cleanupOut >>
  /\ UNCHANGED <<logCall, pf, created, parse, duo>>

\* The deferred cleanup up to the DeletePod request: the progress line, the
\* cleanup context, the call.  The request leaves only on a live context.
CleanupCall ==
  /\ pc = "defers" /\ defers # <<>> /\ Top = "cleanup"
  /\ LET cctx == CleanupContext(ctx) IN
       del' = [ del EXCEPT
                  !.calls = @ + 1,
                  !.sent = IF CtxDone(cctx) THEN @ ELSE @ + 1,
                  !.ctxDoneAtCall = CtxDone(cctx),
                  !.opDoneAtCall = CtxDone(ctx),
                  !.ctx = cctx,
                  !.podWasThere = (pod # "absent") ]
  /\ cleanupOut' = Append(cleanupOut, "Cleaning up pod")
  /\ defers' = Pop
  /\ pc' = "cleanup_wait"
  /\ UNCHANGED << backend, shell, timeout, sigNotify, signals,
                  sigAfterCreate, ctx, pod, createOK, poll, resultPod, logs,
                  termRaw, session, bodyErr, result, exitStatus >>
  /\ UNCHANGED <<logCall, pf, created, parse, duo>>

\* DeletePod returns and the deferred function ends.  A request that was
\* sent and ran into the cleanup deadline may or may not have been applied.
CleanupReturn ==
  /\ pc = "cleanup_wait"
  /\ \E outcome \in {"ok", "apierr"}, applied \in BOOLEAN :
       LET err == IF CtxDone(del.ctx) THEN CtxErr(del.ctx)
                  ELSE DeletePodResult(pod, outcome)
           gone == IF del.ctxDoneAtCall THEN FALSE
                   ELSE IF CtxDone(del.ctx) THEN applied
                   ELSE outcome = "ok"
       IN /\ del' = [ del EXCEPT
                       !.returned = TRUE,
                       !.answer = IF CtxDone(del.ctx) THEN "ctx" ELSE outcome,
                       !.absent = (pod = "absent"),
                       !.err = err ]
          /\ pod' = IF gone THEN "absent" ELSE pod
          /\ cleanupOut' = cleanupOut \o CleanupReport(err)
          /\ result' = ReturnAfterCleanup(result, err)
  /\ pc' = "defers"
  /\ UNCHANGED << backend, shell, timeout, sigNotify, signals,
                  sigAfterCreate, ctx, createOK, defers, poll, resultPod,
                  logs, termRaw, session, bodyErr, exitStatus >>
  /\ UNCHANGED <<logCall, pf, created, parse, duo>>

\* defer cancel()
DeferredCancel ==
  /\ pc = "defers" /\ defers # <<>> /\ Top = "cancel"
  /\ ctx' = [ctx EXCEPT !.cancelled = TRUE]
  /\ defers' = Pop
  /\ UNCHANGED << backend, shell, timeout, pc, sigNotify, signals,
                  sigAfterCreate, pod, createOK, poll, resultPod, logs,
                  termRaw, session, bodyErr, result, exitStatus, del,
                  cleanupOut >>
  /\ UNCHANGED <<logCall, pf, created, parse, duo>>

\* The command has returned; main turns its error into the exit status.
Exit ==
  /\ pc = "defers" /\ defers = <<>>
  /\ exitStatus' = ExitStatus(result)
  /\ pc' = "done"
  /\ UNCHANGED << backend, shell, timeout, sigNotify, signals,
                  sigAfterCreate, ctx, pod, createOK, defers, poll,
                  resultPod, logs, termRaw, session, bodyErr, result, del,
                  cleanupOut >>
  /\ UNCHANGED <<logCall, pf, created, parse, duo>>

\* ----------------------------------------------------- the environment

\* The kubelet moves the pod through its phases.
PodProgress ==
  /\ Alive
  /\ \E ph \in Phases :
       /\ \/ pod = "Pending" /\ ph \in {"Running", "Failed"}
          \/ pod = "Running" /\ ph \in {"Succeeded", "Failed", "Unknown"}
       /\ pod' = ph
  /\ UNCHANGED << backend, shell, timeout, pc, sigNotify, signals,
                  sigAfterCreate, ctx, createOK, defers, poll, resultPod,
                  logs, termRaw, session, bodyErr, result, exitStatus, del,
                  cleanupOut >>
  /\ UNCHANGED <<logCall, pf, created, parse, duo>>

\* Somebody else deletes the pod.
ExternalDelete ==
  /\ Alive /\ pod # "absent"
  /\ pod' = "absent"
  /\ UNCHANGED << backend, shell, timeout, pc, sigNotify, signals,
                  sigAfterCreate, ctx, createOK, defers, poll, resultPod,
                  logs, termRaw, session, bodyErr, result, exitStatus, del,
                  cleanupOut >>
  /\ UNCHANGED <<logCall, pf, created, parse, duo>>

\* SIGINT or SIGTERM reaches the process.  With signal.Notify in place the
\* listening goroutine cancels the operation context (a further signal
\* stays in the channel); without it the Go runtime ends the process at
\* once, and no deferred call runs.
Signal ==
  /\ Alive /\ signals < MaxSignals
  /\ signals' = signals + 1
  /\ sigAfterCreate' = (sigAfterCreate \/ createOK)
  /\ IF sigNotify
       THEN /\ ctx' = [ctx EXCEPT !.cancelled = TRUE]
            /\ UNCHANGED <<pc, exitStatus>>
       ELSE /\ pc' = "killed"
            /\ exitStatus' = 130
            /\ UNCHANGED ctx
  /\ UNCHANGED << backend, shell, timeout, sigNotify, pod, createOK, defers,
                  poll, resultPod, logs, termRaw, session, bodyErr, result,
                  del, cleanupOut >>
  /\ UNCHANGED <<logCall, pf, created, parse, duo>>

\* A second passes while the poll loop sleeps in its select.
Tick ==
  /\ pc = "wait_sleep"
  /\ ~CtxDone(PollCtx) /\ poll.timer > 0
  /\ poll.elapsed < MaxElapsed
  /\ poll' = [poll EXCEPT !.left = Elapse(@), !.timer = @ - 1,
                          !.elapsed = @ + 1]
  /\ ctx' = [ctx EXCEPT !.left = Elapse(@)]
  /\ UNCHANGED << backend, shell, timeout, pc, sigNotify, signals,
                  sigAfterCreate, pod, createOK, defers, resultPod, logs,
                  termRaw, session, bodyErr, result, exitStatus, del,
                  cleanupOut >>
  /\ UNCHANGED <<logCall, pf, created, parse, duo>>

\* The log stream stays open until the operation deadline has passed.
LogsHang ==
  /\ pc = "logs"
  /\ ~CtxDone(ctx) /\ ctx.left > 0
  /\ ctx' = [ctx EXCEPT !.left = 0]
  /\ UNCHANGED << backend, shell, timeout, pc, sigNotify, signals,
                  sigAfterCreate, pod, createOK, defers, poll, resultPod,
                  logs, termRaw, session, bodyErr, result, exitStatus, del,
                  cleanupOut >>
  /\ UNCHANGED <<logCall, pf, created, parse, duo>>

\* The delete request gets no answer until the cleanup deadline has passed.
CleanupHang ==
  /\ pc = "cleanup_wait"
  /\ ~CtxDone(del.ctx) /\ del.ctx.left > 0
  /\ del' = [del EXCEPT !.ctx.left = 0]
  /\ UNCHANGED << backend, shell, timeout, pc, sigNotify, signals,
                  sigAfterCreate, ctx, pod, createOK, defers, poll,
                  resultPod, logs, termRaw, session, bodyErr, result,
                  exitStatus, cleanupOut >>
  /\ UNCHANGED <<logCall, pf, created, parse, duo>>

Next ==
  \/ Start
  \/ CreatePod
  \/ CreateReturn
  \/ CreateHang
  \/ WaitCheck
  \/ WaitWake
  \/ GetPodLogs
  \/ MakeRaw
  \/ ExecStart
  \/ ExecEnd
  \/ DeferredRestore
  \/ CleanupCall
  \/ CleanupReturn
  \/ DeferredCancel
  \/ Exit
  \/ PodProgress
  \/ ExternalDelete
  \/ Signal
  \/ Tick
  \/ LogsHang
  \/ CleanupHang

Spec == Init /\ [][Next]_vars

\* ------------------------------------------------ test mode, with time
\* The test flows alone, under the scheduling the code relies on: the
\* process takes its own steps, time passes, and a control-plane call
\* returns once its context is done.  Status reads are answered at once.

TestInit == Init /\ ~shell

TestNext ==
  \/ Start
  \/ CreatePod
  \/ CreateReturn
  \/ CreateHang
  \/ WaitCheck
  \/ WaitWake
  \/ GetPodLogs
  \/ CleanupCall
  \/ CleanupReturn
  \/ DeferredCancel
  \/ Exit
  \/ PodProgress
  \/ ExternalDelete
  \/ Signal
  \/ Tick
  \/ LogsHang
  \/ CleanupHang

TestFairness ==
  /\ WF_vars(Start)
  /\ WF_vars(CreatePod)
  /\ WF_vars(CreateReturn /\ CtxDone(ctx))
  /\ WF_vars(CreateHang)
  /\ WF_vars(WaitCheck)
  /\ WF_vars(WaitWake)
  /\ WF_vars(Tick)
  /\ WF_vars(GetPodLogs /\ CtxDone(ctx))
  /\ WF_vars(LogsHang)
  /\ WF_vars(CleanupCall)
  /\ WF_vars(CleanupReturn /\ CtxDone(del.ctx))
  /\ WF_vars(CleanupHang)
  /\ WF_vars(DeferredCancel)
  /\ WF_vars(Exit)

LiveSpec == TestInit /\ [][TestNext]_vars /\ TestFairness

\* ======================================================== port-forward
\* The pf command (cmd/portforward.go).  Its whole state is the record pf;
\* the probe's variables stay as before its start.

MaxAccepts == 2

\* Supported databases, their candidate service names and default port.
dbAliases ==
  [ redis |-> [ serviceNames |-> <<"redis", "redis-master", "redis-svc">>,
                defaultPort |-> 6379 ],
    mongo |-> [ serviceNames |-> <<"mongo", "mongodb", "mongo-svc">>,
                defaultPort |-> 27017 ],
    postgres |-> [ serviceNames |-> <<"postgres", "postgresql", "pg",
                                      "pg-svc">>,
                   defaultPort |-> 5432 ] ]

\* args[0]: the supported names and one that is not.
DbTypes == DOMAIN dbAliases \cup {"mysql"}

\* args[1], when given: a sequence of characters.
PortArgs == { <<"1", "6">>, <<"6", "x">> }

\* Values of the --address flag; the first is its default.
Addresses == {"127.0.0.1", "0.0.0.0"}

\* What the namespace holds under a candidate name: no service, a service
\* without selector, a service whose selector matches no pod, a service
\* whose selector matches two pods.
ServiceKinds == {"absent", "noselector", "nopods", "pods"}

NoPod == [svc |-> "", n |-> 0]
NoSelector == ""

DigitValue == ("0" :> 0) @@ ("1" :> 1) @@ ("6" :> 6)

\* strconv.Atoi on an unsigned decimal: the number, or an error.
RECURSIVE AtoiFrom(_, _)
AtoiFrom(s, acc) ==
  IF s = <<>> THEN [val |-> acc, err |-> Nil]
  ELSE IF Head(s) \notin DOMAIN DigitValue
    THEN [val |-> 0, err |-> <<"invalid syntax">>]
  ELSE AtoiFrom(Tail(s), 10 * acc + DigitValue[Head(s)])

Atoi(s) ==
  IF s = <<>> THEN [val |-> 0, err |-> <<"invalid syntax">>]
  ELSE AtoiFrom(s, 0)

\* Services(ns).Get: any failure is an error, a missing service is NotFound.
GetServiceResult(kind, outcome) ==
  IF outcome = "apierr" THEN ApiError
  ELSE IF kind = "absent" THEN <<"services not found">>
  ELSE Nil

\* The pods that the selector of a service of this kind matches, in the
\* order in which the control plane lists them.
PodsOf(name, kind) ==
  IF kind = "pods" THEN << [svc |-> name, n |-> 1], [svc |-> name, n |-> 2] >>
  ELSE <<>>

RECURSIVE PodsIn(_, _)
PodsIn(names, services) ==
  IF names = <<>> THEN <<>>
  ELSE PodsOf(Head(names), services[Head(names)])
         \o PodsIn(Tail(names), services)

\* Pods(ns).List with a label selector and a limit; the empty selector
\* selects every pod of the namespace.
ListPods(names, services, selector, limit) ==
  LET all == PodsIn(names, services)
      matching == IF selector = NoSelector THEN all
                  ELSE SelectSeq(all, LAMBDA p : p.svc = selector)
  IN SubSeq(matching, 1, Min(limit, Len(matching)))

\* svc.Spec.Selector, joined, of the service under a name.
SelectorOf(name, kind) ==
  IF kind \in {"nopods", "pods"} THEN name ELSE NoSelector

\* Variant: a service without selector is not refused.
findPodForService_NoSelectorCheck(names, services, serviceName, getOutcome, listOutcome) ==
  LET kind == services[serviceName]
      getErr == GetServiceResult(kind, getOutcome)
      selector == SelectorOf(serviceName, kind)
      items == ListPods(names, services, selector, 1)
  IN IF getErr # Nil THEN [name |-> NoPod, err |-> getErr]
     ELSE IF listOutcome = "apierr" THEN [name |-> NoPod, err |-> ApiError]
     ELSE IF Len(items) = 0
       THEN [name |-> NoPod, err |-> <<"no pods found for service">>]
     ELSE [name |-> items[1], err |-> Nil]

findPodForService(names, services, serviceName, getOutcome, listOutcome) ==
  LET kind == services[serviceName]
      getErr == GetServiceResult(kind, getOutcome)
      selector == SelectorOf(serviceName, kind)
      items == ListPods(names, services, selector, 1)
  IN IF getErr # Nil THEN [name |-> NoPod, err |-> getErr]
     ELSE IF selector = NoSelector
       THEN [name |-> NoPod, err |-> <<"service has no selector">>]
     ELSE IF listOutcome = "apierr" THEN [name |-> NoPod, err |-> ApiError]
     ELSE IF Len(items) = 0
       THEN [name |-> NoPod, err |-> <<"no pods found for service">>]
     ELSE [name |-> items[1], err |-> Nil]

\* Variant: the candidate loop goes on after a hit.
AfterHit_NoBreak(i, n) == i + 1

\* Index at which the candidate loop continues after a successful Get of
\* candidate i of n: past the end, the break.
AfterHit(i, n) == n + 1

\* Variant: ForwardPorts is called before the forwarding lines are printed.
AfterNew_ForwardFirst == "forward"

\* What follows portforward.New: the three forwarding lines, then
\* ForwardPorts.
AfterNew == "print"

\* portforward.New without addresses listens on localhost, the loopback
\* addresses of both families, whatever pfAddress holds.
ListenAddresses(address) == {"127.0.0.1", "::1"}

ProbeVars == << backend, shell, timeout, pc, sigNotify, signals,
               sigAfterCreate, ctx, pod, createOK, defers, poll, resultPod,
               logs, termRaw, session, bodyErr, result, exitStatus, del,
               cleanupOut, logCall, created, parse, duo >>

\* The command line and the namespace of one run of pf.
PfRuns ==
  { [ args |-> a, address |-> ad, services |-> sv ] :
      a \in { <<d>> : d \in DbTypes }
              \cup { <<d, p>> : d \in DbTypes, p \in PortArgs },
      ad \in Addresses,
      sv \in UNION { [Range(dbAliases[d].serviceNames) -> ServiceKinds] :
                       d \in DOMAIN dbAliases } }

NewPortForward(run) ==
  [ pc |-> "args",
    args |-> run.args,            \* args
    address |-> run.address,      \* pfAddress
    services |-> run.services,    \* the namespace, by candidate name
    localPort |-> 0,
    remotePort |-> 0,
    idx |-> 1,                    \* position of the candidate loop
    gets |-> <<>>,                \* the loop's Get calls and their errors
    serviceName |-> "",
    podName |-> NoPod,
    notify |-> FALSE,             \* signal.Notify has been called
    stop |-> FALSE,               \* stopChan is closed
    signals |-> 0,
    printed |-> <<>>,             \* the forwarding line, once printed
    tunnel |-> "none",            \* "none", "dialed", "listening", "closed"
    listen |-> {},                \* the listening sockets: address, port
    ready |-> FALSE,              \* readyChan is closed
    accepted |-> 0,               \* local connections accepted
    err |-> Nil,
    exitStatus |-> -1 ]

PfInit ==
  /\ backend = "redis"
  /\ shell = FALSE
  /\ timeout = 0
  /\ pc = "start"
  /\ sigNotify = FALSE
  /\ signals = 0
  /\ sigAfterCreate = FALSE
  /\ ctx = [left |-> Unlimited, cancelled |-> FALSE]
  /\ pod = "absent"
  /\ createOK = FALSE
  /\ defers = <<>>
  /\ poll = NoPoll
  /\ resultPod = NoPhase
  /\ logs = <<>>
  /\ termRaw = FALSE
  /\ session = "none"
  /\ bodyErr = Nil
  /\ result = Nil
  /\ exitStatus = -1
  /\ del = NoDelete
  /\ cleanupOut = <<>>
  /\ logCall = [called |-> FALSE, err |-> Nil]
  /\ created = NoObject
  /\ parse = NoParse
  /\ duo = NoDuo
  /\ \E run \in PfRuns :
       /\ run.args[1] \in DOMAIN dbAliases =>
            DOMAIN run.services = Range(dbAliases[run.args[1]].serviceNames)
       /\ run.args[1] \notin DOMAIN dbAliases =>
            run.services \in [Range(dbAliases.redis.serviceNames)
                                -> {"absent"}]
       /\ pf = NewPortForward(run)

dbType == pf.args[1]
alias == dbAliases[dbType]

\* runPortForward returns err; main turns it into the exit status.  The
\* forwarder closes its listeners and its connection when it returns.
PfReturn(err) ==
  /\ pf' = [ pf EXCEPT
               !.pc = "done",
               !.err = err,
               !.exitStatus = ExitStatus(err),
               !.tunnel = IF @ = "none" THEN @ ELSE "closed",
               !.listen = {} ]
  /\ UNCHANGED ProbeVars

\* The alias lookup.
PfLookup ==
  /\ pf.pc = "args"
  /\ IF dbType \notin DOMAIN dbAliases
       THEN PfReturn(<<"unsupported database">>)
       ELSE /\ pf' = [pf EXCEPT !.pc = "client"]
            /\ UNCHANGED ProbeVars

\* GetK8sClient, the default ports, the optional local port.
PfGetClient ==
  /\ pf.pc = "client"
  /\ \E clientOK \in BOOLEAN :
       LET parsed == IF Len(pf.args) > 1 THEN Atoi(pf.args[2])
                     ELSE [val |-> alias.defaultPort, err |-> Nil]
       IN IF ~clientOK THEN PfReturn(<<"failed to create k8s client">>)
          ELSE IF parsed.err # Nil THEN PfReturn(<<"invalid port">>)
          ELSE /\ pf' = [ pf EXCEPT
                            !.pc = "find",
                            !.remotePort = alias.defaultPort,
                            !.localPort = parsed.val ]
               /\ UNCHANGED ProbeVars

\* One round of the candidate loop, or its end.
PfTryService ==
  /\ pf.pc = "find"
  /\ LET names == alias.serviceNames
         n == Len(names)
     IN IF pf.idx > n
          THEN IF pf.serviceName = ""
                 THEN PfReturn(<<"no service found">>)
                 ELSE /\ pf' = [pf EXCEPT !.pc = "findpod"]
                      /\ UNCHANGED ProbeVars
          ELSE \E outcome \in {"ok", "apierr"} :
                 LET name == names[pf.idx]
                     err == GetServiceResult(pf.services[name], outcome)
                 IN /\ pf' = [ pf EXCEPT
                                 !.gets = Append(@, [name |-> name,
                                                     err |-> err]),
                                 !.serviceName =
                                   IF err = Nil THEN name ELSE @,
                                 !.idx = IF err = Nil THEN AfterHit(@, n)
                                         ELSE @ + 1 ]
                    /\ UNCHANGED ProbeVars

\* findPodForService and the check of its error.
PfFindPod ==
  /\ pf.pc = "findpod"
  /\ \E getOutcome \in {"ok", "apierr"}, listOutcome \in {"ok", "apierr"} :
       LET found == findPodForService(alias.serviceNames, pf.services,
                                      pf.serviceName, getOutcome,
                                      listOutcome)
       IN IF found.err # Nil
            THEN PfReturn(<<"failed to find pod">> \o found.err)
            ELSE /\ pf' = [pf EXCEPT !.pc = "setup", !.podName = found.name]
                 /\ UNCHANGED ProbeVars

\* The round tripper, the dialer, the channels, signal.Notify and
\* portforward.New.
PfSetup ==
  /\ pf.pc = "setup"
  /\ \E tripperOK \in BOOLEAN :
       IF ~tripperOK
         THEN PfReturn(<<"failed to create round tripper">>)
         ELSE /\ pf' = [pf EXCEPT !.pc = AfterNew, !.notify = TRUE]
              /\ UNCHANGED ProbeVars

\* The three forwarding lines.
PfPrint ==
  /\ pf.pc = "print"
  /\ pf' = [ pf EXCEPT
               !.pc = "forward",
               !.printed = << dbType, pf.address, pf.localPort,
                              pf.serviceName, pf.remotePort >> ]
  /\ UNCHANGED ProbeVars

\* ForwardPorts dials the pod.
PfDial ==
  /\ pf.pc = "forward"
  /\ \E dialOK \in BOOLEAN :
       IF ~dialOK
         THEN PfReturn(<<"error upgrading connection">>)
         ELSE /\ pf' = [pf EXCEPT !.pc = "listen", !.tunnel = "dialed"]
              /\ UNCHANGED ProbeVars

\* ForwardPorts binds the local port.
PfListen ==
  /\ pf.pc = "listen"
  /\ \E bindOK \in BOOLEAN :
       IF ~bindOK
         THEN PfReturn(<<"unable to listen on any of the requested ports">>)
         ELSE /\ pf' = [ pf EXCEPT
                           !.pc = "bound",
                           !.tunnel = "listening",
                           !.listen =
                             { [addr |-> a, port |-> pf.localPort] :
                                 a \in ListenAddresses(pf.address) } ]
              /\ UNCHANGED ProbeVars

\* ForwardPorts closes readyChan and waits.
PfReady ==
  /\ pf.pc = "bound"
  /\ pf' = [pf EXCEPT !.pc = "serving", !.ready = TRUE]
  /\ UNCHANGED ProbeVars

\* A listener accepts a local connection.
PfAccept ==
  /\ pf.pc \in {"bound", "serving"}
  /\ pf.accepted < MaxAccepts
  /\ pf' = [pf EXCEPT !.accepted = @ + 1]
  /\ UNCHANGED ProbeVars

\* ForwardPorts returns: stopChan closed, or the connection to the pod lost.
PfStop ==
  /\ pf.pc = "serving"
  /\ \E lost \in BOOLEAN :
       /\ ~lost => pf.stop
       /\ PfReturn(IF lost THEN <<"lost connection to pod">> ELSE Nil)

\* SIGINT or SIGTERM: closes stopChan once signal.Notify has been called,
\* ends the process before that.
PfSignal ==
  /\ pf.pc \notin {"done", "killed"}
  /\ pf.signals < MaxSignals
  /\ pf' = IF pf.notify
             THEN [pf EXCEPT !.signals = @ + 1, !.stop = TRUE]
             ELSE [pf EXCEPT !.signals = @ + 1, !.pc = "killed",
                             !.exitStatus = 130]
  /\ UNCHANGED ProbeVars

PfNext ==
  \/ PfLookup
  \/ PfGetClient
  \/ PfTryService
  \/ PfFindPod
  \/ PfSetup
  \/ PfPrint
  \/ PfDial
  \/ PfListen
  \/ PfReady
  \/ PfAccept
  \/ PfStop
  \/ PfSignal

PfSpec == PfInit /\ [][PfNext]_vars

\* ================================================ parseRedisConnection
\* One call of parseRedisConnection (unnamed/part_000) on a connection
\* string, a sequence of characters, written from its parts.

Scheme == <<"r", "e", "d", "i", "s", ":", "/", "/">>
DefaultPort == <<"6", "3", "7", "9">>

\* A part that is not written.
Absent == <<"(absent)">>

\* The parts a connection string is written from.  The last password holds
\* an "@" and the last host a ":", which the forms do not allow unescaped.
Schemes == {Absent, Scheme}
Passwords == { Absent, <<>>, <<"s">>, <<"s", "e", "c">>, <<"a", ":", "b">>,
               <<"p", "@", "s">> }
Hosts == { <<"h">>, <<"r", "-", "s">>, <<"[", ":", "]">> }
Ports == { Absent, DefaultPort, <<"1">> }

Written(part) == IF part = Absent THEN <<>> ELSE part

\* [redis://][:password@]host[:port]
ConnectionString(scheme, password, host, port) ==
  Written(scheme)
    \o (IF password = Absent THEN <<>> ELSE <<":">> \o password \o <<"@">>)
    \o host
    \o (IF port = Absent THEN <<>> ELSE <<":">> \o port)

HasPrefix(s, prefix) ==
  Len(s) >= Len(prefix) /\ SubSeq(s, 1, Len(prefix)) = prefix

\* Variant: the prefix is left in place.
TrimPrefix_Keep(s, prefix) == s

\* strings.TrimPrefix
TrimPrefix(s, prefix) ==
  IF HasPrefix(s, prefix) THEN SubSeq(s, Len(prefix) + 1, Len(s)) ELSE s

\* strings.Index for a separator of one character; 0 when it is not there.
Index(s, c) ==
  IF c \in Range(s)
    THEN CHOOSE i \in 1..Len(s) :
           s[i] = c /\ \A j \in 1..(i - 1) : s[j] # c
    ELSE 0

\* strings.SplitN(s, c, 2) on a string that contains c.
SplitN2(s, c) ==
  << SubSeq(s, 1, Index(s, c) - 1), SubSeq(s, Index(s, c) + 1, Len(s)) >>

parseRedisConnection(connArg) ==
  LET conn1 == TrimPrefix(connArg, Scheme)
      hasAt == Contains(conn1, <<"@">>)
      password == IF hasAt THEN TrimPrefix(SplitN2(conn1, "@")[1], <<":">>)
                  ELSE <<>>
      conn2 == IF hasAt THEN SplitN2(conn1, "@")[2] ELSE conn1
      hasColon == Contains(conn2, <<":">>)
  IN [ host |-> IF hasColon THEN SplitN2(conn2, ":")[1] ELSE conn2,
       port |-> IF hasColon THEN SplitN2(conn2, ":")[2] ELSE DefaultPort,
       password |-> password ]

ParseInit ==
  /\ backend = "redis"
  /\ shell = FALSE
  /\ timeout = 0
  /\ pc = "start"
  /\ sigNotify = FALSE
  /\ signals = 0
  /\ sigAfterCreate = FALSE
  /\ ctx = [left |-> Unlimited, cancelled |-> FALSE]
  /\ pod = "absent"
  /\ createOK = FALSE
  /\ defers = <<>>
  /\ poll = NoPoll
  /\ resultPod = NoPhase
  /\ logs = <<>>
  /\ termRaw = FALSE
  /\ session = "none"
  /\ bodyErr = Nil
  /\ result = Nil
  /\ exitStatus = -1
  /\ del = NoDelete
  /\ cleanupOut = <<>>
  /\ logCall = [called |-> FALSE, err |-> Nil]
  /\ created = NoObject
  /\ pf = NoPortForward
  /\ duo = NoDuo
  /\ \E sc \in Schemes, pw \in Passwords, h \in Hosts, pt \in Ports :
       parse = [ pc |-> "call",
                 parts |-> [scheme |-> sc, password |-> pw, host |-> h,
                            port |-> pt],
                 conn |-> ConnectionString(sc, pw, h, pt),
                 out |-> [host |-> <<>>, port |-> <<>>, password |-> <<>>] ]

\* host, port, password := parseRedisConnection(connectionString)
ParseCall ==
  /\ parse.pc = "call"
  /\ parse' = [ parse EXCEPT !.pc = "returned",
                             !.out = parseRedisConnection(parse.conn) ]
  /\ UNCHANGED << backend, shell, timeout, pc, sigNotify, signals,
                  sigAfterCreate, ctx, pod, createOK, defers, poll,
                  resultPod, logs, termRaw, session, bodyErr, result,
                  exitStatus, del, cleanupOut, logCall, pf, created, duo >>

ParseNext == ParseCall

ParseSpec == ParseInit /\ [][ParseNext]_vars

\* ===================================================== two invocations
\* Two invocations of one test command started within the same second and
\* in the same namespace: both derive the same pod name.  Each is followed
\* from its CreatePod to its return; DeletePod goes by that name.

MaxExternalDeletes == 1

Invocations == {1, 2}
NoOwner == 0
AlreadyExists == <<"pods already exists">>

\* Variant: a create under a taken name replaces the pod.
CreateAnswer_Replaces(owner, outcome) ==
  IF outcome = "rejected" THEN <<"rejected">> ELSE Nil

\* Pods(ns).Create: the control plane's answer for a name whose pod is
\* owned by owner.
CreateAnswer(owner, outcome) ==
  IF owner # NoOwner THEN AlreadyExists
  ELSE IF outcome = "rejected" THEN <<"rejected">>
  ELSE Nil

DuoInit ==
  /\ backend \in Backends
  /\ shell = FALSE
  /\ timeout = 0
  /\ pc = "start"
  /\ sigNotify = FALSE
  /\ signals = 0
  /\ sigAfterCreate = FALSE
  /\ ctx = [left |-> Unlimited, cancelled |-> FALSE]
  /\ pod = "absent"
  /\ createOK = FALSE
  /\ defers = <<>>
  /\ poll = NoPoll
  /\ resultPod = NoPhase
  /\ logs = <<>>
  /\ termRaw = FALSE
  /\ session = "none"
  /\ bodyErr = Nil
  /\ result = Nil
  /\ exitStatus = -1
  /\ del = NoDelete
  /\ cleanupOut = <<>>
  /\ logCall = [called |-> FALSE, err |-> Nil]
  /\ created = NoObject
  /\ pf = NoPortForward
  /\ parse = NoParse
  /\ duo = [ pc |-> "running",
             name |-> PodConfig(backend, FALSE).Name,
             owner |-> NoOwner,          \* who created the pod of that name
             externalDeletes |-> 0,
             inv |-> [ i \in Invocations |->
                         [ pc |-> "create",
                           createOK |-> FALSE,
                           defers |-> <<"cancel">>,
                           err |-> Nil,
                           delCalls |-> 0,
                           removed |-> NoOwner ] ] ]  \* whose pod it deleted

DuoUnchanged ==
  UNCHANGED << backend, shell, timeout, pc, sigNotify, signals,
               sigAfterCreate, ctx, pod, createOK, defers, poll, resultPod,
               logs, termRaw, session, bodyErr, result, exitStatus, del,
               cleanupOut, logCall, pf, created, parse >>

\* client.CreatePod and the defer of the cleanup.
DuoCreate(i) ==
  /\ duo.inv[i].pc = "create"
  /\ \E outcome \in {"ok", "rejected"} :
       LET err == CreateAnswer(duo.owner, outcome)
       IN duo' = [ duo EXCEPT
                     !.owner = IF err = Nil THEN i ELSE @,
                     !.inv[i].createOK = (err = Nil),
                     !.inv[i].err =
                       IF CreateFailed(err)
                         THEN <<"failed to create pod">> \o err ELSE Nil,
                     !.inv[i].pc =
                       IF CreateFailed(err) THEN "defers" ELSE "body",
                     !.inv[i].defers =
                       IF CreateFailed(err) THEN @ ELSE DeferCleanup(@) ]
  /\ DuoUnchanged

\* The rest of the body: the wait, the logs, the verdict.
DuoBody(i) ==
  /\ duo.inv[i].pc = "body"
  /\ \E err \in {Nil, <<"connection test failed">>} :
       duo' = [duo EXCEPT !.inv[i].pc = "defers", !.inv[i].err = err]
  /\ DuoUnchanged

\* The deferred cleanup: DeletePod by name.
DuoCleanup(i) ==
  /\ duo.inv[i].pc = "defers" /\ duo.inv[i].defers # <<>>
  /\ duo.inv[i].defers[NextDeferred(duo.inv[i].defers)] = "cleanup"
  /\ \E outcome \in {"ok", "apierr"} :
       LET err == DeletePodResult(IF duo.owner = NoOwner THEN "absent"
                                  ELSE "Pending", outcome)
       IN duo' = [ duo EXCEPT
                     !.owner = IF err = Nil THEN NoOwner ELSE @,
                     !.inv[i].delCalls = @ + 1,
                     !.inv[i].removed = IF err = Nil THEN duo.owner ELSE @,
                     !.inv[i].defers = SubSeq(@, 1, Len(@) - 1) ]
  /\ DuoUnchanged

\* defer cancel()
DuoCancel(i) ==
  /\ duo.inv[i].pc = "defers" /\ duo.inv[i].defers # <<>>
  /\ duo.inv[i].defers[NextDeferred(duo.inv[i].defers)] = "cancel"
  /\ duo' = [duo EXCEPT !.inv[i].defers = SubSeq(@, 1, Len(@) - 1)]
  /\ DuoUnchanged

\* The command returns.
DuoExit(i) ==
  /\ duo.inv[i].pc = "defers" /\ duo.inv[i].defers = <<>>
  /\ duo' = [duo EXCEPT !.inv[i].pc = "done"]
  /\ DuoUnchanged

\* Somebody else deletes the pod of that name.
DuoExternalDelete ==
  /\ duo.owner # NoOwner
  /\ duo.externalDeletes < MaxExternalDeletes
  /\ duo' = [duo EXCEPT !.owner = NoOwner, !.externalDeletes = @ + 1]
  /\ DuoUnchanged

DuoNext ==
  \/ \E i \in Invocations : DuoCreate(i)
  \/ \E i \in Invocations : DuoBody(i)
  \/ \E i \in Invocations : DuoCleanup(i)
  \/ \E i \in Invocations : DuoCancel(i)
  \/ \E i \in Invocations : DuoExit(i)
  \/ DuoExternalDelete

DuoSpec == DuoInit /\ [][DuoNext]_vars

\* ============================================================== claims

Ended == pc \in {"done", "killed"}

\* C1: in test mode, once CreatePod has succeeded, the cleanup's DeletePod is
\* called at most once at any time and exactly once when the command has
\* returned, whatever ended the run (terminal phase, poll timeout, failed
\* status read, failed log retrieval).
C1_DeleteExactlyOnce ==
  (~shell /\ createOK) =>
    /\ del.calls <= 1
    /\ pc = "done" => del.calls = 1

\* C1 witness: a probe whose log retrieval failed has returned after one
\* DeletePod call.
C1_Witness ==
  /\ pc = "done" /\ ~shell /\ createOK
  /\ bodyErr # Nil /\ Head(bodyErr) = "failed to get logs"
  /\ del.calls = 1

\* C2 (as claimed): once CreatePod has succeeded, a signal is always followed
\* by a DeletePod call before the process is gone, in test mode and in shell
\* mode alike.
C2_InterruptFollowedByDelete ==
  (Ended /\ sigAfterCreate) => del.calls >= 1

\* C3: the cleanup's DeletePod is called on a context of its own that is
\* live at the call and has a deadline of at most the cleanup timeout; the
\* request is sent whatever the state of the operation context.
C3_CleanupContextFresh ==
  del.calls > 0 =>
    /\ ~del.ctxDoneAtCall
    /\ del.sent = del.calls
    /\ ~del.ctx.cancelled
    /\ del.ctx.left \in 0..CleanupTimeout

\* C3 witness: the delete request was sent although the operation context
\* was done (expired or cancelled) when the cleanup ran.
C3_Witness ==
  del.calls = 1 /\ del.opDoneAtCall /\ del.sent = 1

\* C4: the error the command returns is the one its body returned, whether
\* the cleanup's DeletePod succeeded or failed, and the exit status is
\* non-zero exactly when the body returned an error.
C4_ResultIndependentOfCleanup ==
  pc = "done" =>
    /\ result = bodyErr
    /\ (exitStatus # 0) <=> (bodyErr # Nil)
    /\ exitStatus \in {0, 1}

\* C4 witness: a successful run has exited with status 0 although its
\* cleanup's DeletePod failed.
C4_Witness ==
  /\ pc = "done" /\ del.returned /\ del.err # Nil
  /\ bodyErr = Nil /\ exitStatus = 0

\* C5 (as claimed): a failed cleanup DeletePod is reported: the cleanup
\* prints something besides its progress line.
C5_DeleteFailureWarned ==
  (del.returned /\ del.err # Nil) =>
    \E i \in 1..Len(cleanupOut) : cleanupOut[i] # "Cleaning up pod"

\* C5 (amended): the cleanup prints its progress line before the DeletePod
\* call and nothing else; the error of a failed delete is discarded.
C5_DeleteFailureSilent ==
  del.calls > 0 => cleanupOut = <<"Cleaning up pod">>

\* C5 witness: a DeletePod has failed and the progress line is all the
\* cleanup printed.
C5_Witness ==
  /\ del.returned /\ del.err # Nil
  /\ cleanupOut = <<"Cleaning up pod">>

\* C6 (as claimed): DeletePod never returns the not-found answer.
C6_NotFoundSwallowed ==
  del.returned => del.err # NotFound

\* C6 (amended): DeletePod on an absent pod returns the control plane's
\* not-found error as it is; the deferred cleanup that called it discards
\* the error, so the result of the command stays the one of its body.
C6_NotFoundReturnedThenDiscarded ==
  (del.returned /\ del.absent /\ del.answer = "ok") =>
    /\ del.err = NotFound
    /\ result = bodyErr

\* C6 witness: the cleanup deleted a pod that somebody else had deleted
\* before, and DeletePod returned not-found.
C6_Witness ==
  /\ del.returned /\ del.podWasThere = FALSE /\ del.absent
  /\ del.err = NotFound

\* C7 (as claimed): without cancellation, a wait returns an error only when
\* its timeout is reached; a failed status read does not end it.
C7_WaitErrorOnlyOnTimeout ==
  (poll.ended /\ poll.err # Nil /\ ~ctx.cancelled) =>
    poll.err = DeadlineExceeded

\* C7 (amended): a failed status read, not-found included, ends the wait at
\* once: no wait goes on after a failed read, and the wait returns the error
\* of the read, which the command returns wrapped.
C7_ReadErrorEndsWait ==
  /\ poll.active => ~poll.readFailed
  /\ (poll.ended /\ poll.readFailed) =>
       /\ poll.err # Nil
       /\ bodyErr = WaitErrorWrap(shell, poll.err, poll.last)

\* C7 witness: a wait ended with the not-found error of a status read.
C7_Witness ==
  poll.ended /\ poll.readFailed /\ poll.err = NotFound

\* C8: when the predicate holds at the first status read of a wait, the wait
\* returns success after that one read and without having slept.
C8_FirstCheckImmediate ==
  poll.firstMatched =>
    /\ poll.ended
    /\ poll.err = Nil
    /\ poll.atFirstCheck

\* C8 witness: a wait has returned success from its first check.
C8_Witness ==
  poll.ended /\ poll.firstMatched /\ poll.atFirstCheck /\ poll.err = Nil

\* C9: a wait never runs past its timeout; when no signal cancels it, every
\* status read succeeds and the phase never matches, it returns the
\* deadline-exceeded error, no later than timeout plus one poll interval
\* after its start; it returns success only after a read that matched.
C9_WaitBounded ==
  /\ poll.active => poll.elapsed <= WaitLimit(shell, timeout)
  /\ poll.ended => ~poll.overran
  /\ (poll.ended /\ ~poll.readFailed /\ ~poll.matched /\ signals = 0) =>
       poll.err = DeadlineExceeded
  /\ (poll.ended /\ poll.err = Nil) => poll.matched

\* C9 witness: a test-mode wait whose reads all succeeded without a match
\* has ended with the deadline-exceeded error.
C9_Witness ==
  /\ ~shell /\ timeout >= 1
  /\ poll.ended /\ ~poll.readFailed /\ ~poll.matched
  /\ poll.last \in Phases
  /\ poll.err = DeadlineExceeded

\* C10 (as claimed): the error of a command whose wait timed out carries the
\* last phase the poller observed.
C10_TimeoutCarriesPhase ==
  (pc = "done" /\ poll.ended /\ poll.err = DeadlineExceeded
     /\ poll.last \in Phases) =>
    poll.last \in Range(result)

\* C10 (amended): the error of a command whose wait timed out is the
\* context's deadline-exceeded error behind a fixed prefix and names no
\* phase; the last observed pod is kept only in WaitForPodCompletion's
\* second result, which the command does not use.
C10_TimeoutErrorNamesNoPhase ==
  (poll.ended /\ poll.err = DeadlineExceeded) =>
    /\ bodyErr = << IF shell THEN "pod failed to start"
                    ELSE "timeout waiting for test" >> \o DeadlineExceeded
    /\ Range(bodyErr) \cap Phases = {}
    /\ ~shell => resultPod = poll.last

\* C10 witness: a command has returned after its wait timed out with a
\* phase observed.
C10_Witness ==
  /\ pc = "done" /\ poll.ended /\ poll.err = DeadlineExceeded
  /\ poll.last \in Phases
  /\ result = bodyErr

\* The command body has returned (its deferred calls run or have run).
Returned == pc \in {"defers", "cleanup_wait", "done"}

\* The probe's log retrieval returned without error.
LogsFetched == logCall.called /\ logCall.err = Nil

\* C11: a redis probe succeeds if and only if its logs were fetched, the
\* terminal phase is Succeeded and the trimmed log text contains PONG; an
\* error banner with phase Succeeded fails, and PONG with phase Failed fails.
C11_RedisSuccessIffPhaseAndPong ==
  (~shell /\ backend = "redis" /\ Returned) =>
    ( bodyErr = Nil <=>
        (LogsFetched /\ resultPod = "Succeeded" /\ Contains(logs, PONG)) )

\* C11 witness: a redis probe whose pod succeeded and printed an error
\* banner has returned the failure.
C11_Witness ==
  /\ ~shell /\ backend = "redis" /\ pc = "done"
  /\ LogsFetched /\ resultPod = "Succeeded" /\ logs = ErrorBanner
  /\ result = <<"connection test failed">>

\* C12 (as claimed): for every backend, a probe whose output is an error
\* banner is reported as failed.
C12_EveryBackendNeedsMarker ==
  (~shell /\ Returned /\ LogsFetched /\ logs = ErrorBanner) => bodyErr # Nil

\* C12 (amended): the mongo and postgres probes decide on the phase alone:
\* once the logs were fetched they succeed if and only if the terminal phase
\* is Succeeded, whatever the output; only the redis probe also looks for a
\* marker.
C12_MongoPostgresPhaseOnly ==
  (~shell /\ backend \in {"mongo", "postgres"} /\ Returned) =>
    ( bodyErr = Nil <=> (LogsFetched /\ resultPod = "Succeeded") )

\* C12 witness: a mongo probe whose pod succeeded and printed an error
\* banner has returned success.
C12_Witness ==
  /\ ~shell /\ backend = "mongo" /\ pc = "done"
  /\ LogsFetched /\ resultPod = "Succeeded" /\ logs = ErrorBanner
  /\ result = Nil /\ exitStatus = 0

\* C13: in the shell flows the terminal is in raw mode, or an exec is
\* running or has run, only after WaitForPodRunning returned success on a
\* read that observed phase Running; when the wait failed there is no raw
\* mode and no exec session.
C13_ExecOnlyAfterRunning ==
  /\ (termRaw \/ session # "none" \/ pc \in {"makeraw", "exec", "exec_stream"})
       => /\ shell
          /\ poll.ended /\ poll.err = Nil
          /\ poll.matched /\ poll.last = "Running"
  /\ (poll.ended /\ poll.err # Nil) => (~termRaw /\ session = "none")

\* C13 witness: a shell command has returned after its wait failed on a
\* status read.
C13_Witness ==
  /\ shell /\ pc = "done" /\ poll.ended /\ poll.readFailed
  /\ poll.err # Nil /\ session = "none"

C15_CleanupLast ==
  del.calls > 0 =>
    /\ pc \in {"defers", "cleanup_wait", "done", "killed"}
    /\ poll.ended /\ ~poll.active
    /\ session # "open"
    /\ ~termRaw /\ "restore" \notin Range(defers)
    /\ Range(defers) \subseteq {"cancel"}

\* C15 witness: a shell command whose exec session ended with an error has
\* returned after its DeletePod call.
C15_Witness ==
  /\ shell /\ pc = "done" /\ del.calls = 1
  /\ session = "closed" /\ bodyErr = <<"connection error">>

\* C16: a probe whose log retrieval failed returns that error, also when the
\* observed phase is Succeeded, and its DeletePod is still called.
C16_LogErrorFailsProbe ==
  (logCall.called /\ logCall.err # Nil) =>
    /\ resultPod \in {"Succeeded", "Failed"}
    /\ bodyErr = <<"failed to get logs">> \o logCall.err
    /\ pc = "done" => (result # Nil /\ exitStatus = 1 /\ del.calls = 1)

\* C16 witness: a probe whose pod succeeded and whose log retrieval failed
\* has returned with exit status 1 after one DeletePod call.
C16_Witness ==
  /\ pc = "done" /\ logCall.called /\ logCall.err # Nil
  /\ resultPod = "Succeeded" /\ exitStatus = 1 /\ del.calls = 1

\* C17: a command that had its client and whose CreatePod failed returns
\* that error at once: no
\* poll, no log fetch, no raw mode, no exec, and no cleanup is registered or
\* called.
C17_CreateFailureReturnsAtOnce ==
  (/\ ~createOK
   /\ pc \notin {"start", "create", "create_wait", "killed"}
   /\ bodyErr # <<"failed to create k8s client">>) =>
    /\ Returned
    /\ bodyErr # Nil /\ Head(bodyErr) = "failed to create pod"
    /\ poll = NoPoll /\ ~logCall.called
    /\ ~termRaw /\ session = "none"
    /\ del.calls = 0 /\ "cleanup" \notin Range(defers)
    /\ pc = "done" => exitStatus = 1

\* C17 witness: a command whose CreatePod was rejected has returned.
C17_Witness ==
  /\ pc = "done" /\ ~createOK /\ exitStatus = 1
  /\ result = <<"failed to create pod", "rejected">>
  /\ del.calls = 0

\* ------------------------------------------------- port-forward claims

\* The candidate loop of a supported database has ended.
LoopDone ==
  dbType \in DOMAIN dbAliases /\ pf.idx > Len(alias.serviceNames)

\* Indexes of the candidates under whose name a service exists.
Existing ==
  {i \in 1..Len(alias.serviceNames) :
     pf.services[alias.serviceNames[i]] # "absent"}

FirstOf(S) == CHOOSE i \in S : \A j \in S : i <= j

\* C18 (as claimed): the service chosen by the candidate loop is the
\* existing candidate with the smallest list index.
C18_FirstExistingChosen ==
  (LoopDone /\ Existing # {}) =>
    pf.serviceName = alias.serviceNames[FirstOf(Existing)]

\* C18 (amended): the candidates are read in list order up to the first
\* whose Get returns no error, and that one is chosen; a candidate whose
\* Get fails for any reason, not only a missing service, is passed over.
\* When no Get failed on the API the chosen one is the first existing
\* candidate.  The target pod is the first pod that the chosen service's
\* selector lists.
C18_FirstAnsweredChosen ==
  dbType \in DOMAIN dbAliases =>
    LET names == alias.serviceNames
        g == pf.gets
    IN /\ \A k \in 1..Len(g) : g[k].name = names[k]
       /\ \A k \in 1..(Len(g) - 1) : g[k].err # Nil
       /\ pf.serviceName # "" =>
            /\ g[Len(g)] = [name |-> pf.serviceName, err |-> Nil]
            /\ pf.services[pf.serviceName] # "absent"
       /\ (LoopDone /\ \A k \in 1..Len(g) : g[k].err # ApiError) =>
            pf.serviceName = IF Existing = {} THEN ""
                             ELSE names[FirstOf(Existing)]
       /\ pf.podName # NoPod =>
            /\ pf.services[pf.serviceName] = "pods"
            /\ pf.podName = PodsOf(pf.serviceName, "pods")[1]

\* C18 witness: with only redis-svc existing, pf redis forwards to the first
\* pod of redis-svc after three reads.
C18_Witness ==
  /\ dbType = "redis" /\ pf.pc = "serving"
  /\ pf.services["redis"] = "absent"
  /\ pf.services["redis-master"] = "absent"
  /\ pf.services["redis-svc"] = "pods"
  /\ Len(pf.gets) = 3
  /\ pf.podName = [svc |-> "redis-svc", n |-> 1]

\* C19: when no candidate's Get succeeds, or the first candidate whose Get
\* succeeds has no selector or no pod, pf returns an error, no tunnel is
\* opened and no candidate after the chosen one is read.
C19_NoTargetNoTunnel ==
  dbType \in DOMAIN dbAliases =>
    /\ (LoopDone /\ pf.serviceName = "") =>
         /\ pf.pc \in {"find", "done", "killed"}
         /\ pf.pc = "done" =>
              (pf.err = <<"no service found">> /\ pf.exitStatus = 1)
         /\ pf.tunnel = "none" /\ pf.podName = NoPod
    /\ (pf.serviceName # ""
          /\ pf.services[pf.serviceName] \in {"noselector", "nopods"}) =>
         /\ pf.pc \in {"find", "findpod", "done", "killed"}
         /\ pf.pc = "done" =>
              /\ pf.err # Nil /\ Head(pf.err) = "failed to find pod"
              /\ pf.exitStatus = 1
         /\ pf.tunnel = "none" /\ pf.podName = NoPod /\ pf.printed = <<>>
         /\ pf.gets[Len(pf.gets)].name = pf.serviceName

\* C19 witness: redis has no pod and redis-master has pods; pf redis has
\* returned the error after reading redis only.
C19_Witness ==
  /\ dbType = "redis" /\ pf.pc = "done"
  /\ pf.services["redis"] = "nopods"
  /\ pf.services["redis-master"] = "pods"
  /\ pf.err = <<"failed to find pod", "no pods found for service">>
  /\ Len(pf.gets) = 1

\* C20 (as claimed): the forwarding lines are printed only after the
\* readiness signal has fired.
C20_PrintedAfterReady ==
  pf.printed # <<>> => pf.ready

\* C20 (amended): the readiness channel is closed only after the local port
\* is bound, but the command never receives from it: the forwarding lines
\* are printed before ForwardPorts is called, so before the connection to
\* the pod and before the bind.
C20_PrintedBeforeBind ==
  /\ pf.ready => (pf.tunnel \in {"listening", "closed"}
                    /\ pf.pc \in {"serving", "done"})
  /\ pf.accepted > 0 => pf.tunnel \in {"listening", "closed"}
  /\ pf.tunnel # "none" => pf.printed # <<>>
  /\ pf.pc = "forward" =>
       (pf.printed # <<>> /\ ~pf.ready /\ pf.tunnel = "none")

\* C20 witness: the forwarding lines were printed and the bind then failed.
C20_Witness ==
  /\ pf.pc = "done" /\ pf.printed # <<>> /\ ~pf.ready
  /\ pf.err = <<"unable to listen on any of the requested ports">>

\* C21: while the tunnel listens, one of its sockets is bound on the address
\* given by --address and on the local port, and that address is the one
\* printed in the forwarding line.
C21_ListensOnRequestedAddress ==
  pf.tunnel = "listening" =>
    /\ [addr |-> pf.address, port |-> pf.localPort] \in pf.listen
    /\ pf.printed[2] \in {sock.addr : sock \in pf.listen}

\* ------------------------------------------------------- probe claims

OwnershipLabels ==
  { <<"app.kubernetes.io/managed-by", "kubectl-pocket">>,
    <<"kubectl-pocket/temporary", "true">> }

\* C22: every pod that the control plane holds for the command came from
\* CreatePod and carries both ownership labels, whatever the PodConfig.
C22_OwnershipLabels ==
  /\ pod # "absent" => created # NoObject
  /\ created # NoObject =>
       /\ OwnershipLabels \subseteq created.labels
       /\ created.name = PodConfig(backend, shell).Name
       /\ created.tty = shell /\ created.stdin = shell

\* C22 witness: the pod of a postgres shell, with TTY and Stdin set, was
\* created with both labels.
C22_Witness ==
  /\ backend = "postgres" /\ shell /\ createOK
  /\ created.tty /\ created.stdin
  /\ created.labels = OwnershipLabels

\* C25: when a command has returned and the control plane had accepted its
\* pod, DeletePod has been called for it.
C25_AcceptedPodGetsDelete ==
  (pc = "done" /\ created # NoObject) => del.calls >= 1

\* C26: in the shell flows WaitForPodRunning returns nil only from a read
\* that observed Running; a wait whose last read observed Succeeded or
\* Failed has not ended for that reason: it is still polling, or it ended
\* with the context's error, on its timeout or on cancellation.
C26_RunningWaitIgnoresTerminal ==
  shell =>
    /\ (poll.ended /\ poll.err = Nil) =>
         (poll.matched /\ ~poll.readFailed /\ poll.last = "Running")
    /\ (poll.ended /\ ~poll.readFailed
          /\ poll.last \in {"Succeeded", "Failed"}) =>
         /\ poll.err \in {DeadlineExceeded, Canceled}
         /\ poll.err = Canceled => ctx.cancelled
         /\ bodyErr = <<"pod failed to start">> \o poll.err
    /\ (poll.active /\ poll.last \in {"Succeeded", "Failed"}) =>
         pc \in {"wait_check", "wait_sleep"}

\* C26 witness: a shell command has returned after its wait, having read
\* Failed, ran into its timeout.
C26_Witness ==
  /\ shell /\ pc = "done" /\ poll.ended /\ ~poll.readFailed
  /\ poll.last = "Failed" /\ poll.err = DeadlineExceeded
  /\ signals = 0

\* C27: in the test flows WaitForPodCompletion returns a nil error only with
\* a pod that a read observed in Succeeded or Failed, so the phase test and
\* the log fetch only ever follow such a pod.
C27_CompletionHasTerminalPod ==
  ~shell =>
    /\ (poll.ended /\ poll.err = Nil) =>
         (resultPod \in {"Succeeded", "Failed"} /\ resultPod = poll.last)
    /\ (pc = "logs" \/ logCall.called) =>
         (poll.ended /\ poll.err = Nil
            /\ resultPod \in {"Succeeded", "Failed"})

\* C27 witness: a probe has fetched the logs of a pod observed in Failed.
C27_Witness ==
  /\ ~shell /\ logCall.called /\ logCall.err = Nil
  /\ poll.ended /\ poll.err = Nil /\ resultPod = "Failed"

\* ---------------------------------------- parseRedisConnection claims

\* The forms of the claim: a password without "@", a host without ":".
WellFormed(parts) ==
  /\ parts.password # Absent => "@" \notin Range(parts.password)
  /\ Range(parts.host) \cap {":", "@"} = {}

C24_NeverDeletesForeignPod ==
  \A i \in Invocations : duo.inv[i].removed \in {NoOwner, i}

\* C24 (amended): an invocation whose CreatePod failed, also because the
\* name was taken, never calls DeletePod; an invocation that created its
\* pod calls it once by the time it has returned.  DeletePod goes by name:
\* as long as nobody else deletes the pod, what an invocation removes is
\* its own pod.
C24_RejectedNeverDeletes ==
  \A i \in Invocations :
    LET me == duo.inv[i] IN
      /\ (me.pc # "create" /\ ~me.createOK) =>
           (me.delCalls = 0 /\ me.removed = NoOwner /\ me.err # Nil)
      /\ me.delCalls <= 1
      /\ (me.pc = "done" /\ me.createOK) => me.delCalls = 1
      /\ duo.externalDeletes = 0 => me.removed \in {NoOwner, i}

\* C24 witness: invocation 2 was refused the taken name and has returned
\* without a DeletePod call; invocation 1 has removed its own pod.
C24_Witness ==
  /\ duo.inv[2].pc = "done"
  /\ duo.inv[2].err = <<"failed to create pod">> \o AlreadyExists
  /\ duo.inv[2].delCalls = 0
  /\ duo.inv[1].pc = "done" /\ duo.inv[1].removed = 1

\* ----------------------------------------------------- liveness claims

\* C28: every test-mode invocation eventually ends, given that the process
\* runs, time passes and each control-plane call returns once its context
\* is done.
C28_TestTerminates == ~shell ~> Ended

\* C28 witness: a probe has returned whose log fetch lasted until the
\* overall deadline and whose delete lasted until the cleanup's own.
C28_Witness ==
  /\ ~shell /\ pc = "done"
  /\ logCall.called /\ logCall.err = DeadlineExceeded
  /\ del.returned /\ del.err = DeadlineExceeded

====
